---- MODULE Spec2Model ----
(***************************************************************************)
(* ChangeLens: windowed metrics aggregation (scripts/parse_k6.py), the     *)
(* offline rollback detector (extract_rollback_events), the live polling   *)
(* detector (scripts/rollback_detector.py), the derived metrics of a run   *)
(* (scripts/derive_metrics.py), the suite runner that calls them           *)
(* (scripts/run_experiment_suite.py) and the statistics over the runs      *)
(* (scripts/statistical_analysis.py).                                      *)
(*                                                                         *)
(* Units.  Times are whole seconds, latencies whole milliseconds.  An      *)
(* error rate is kept in per-mille of the fraction the code computes, so   *)
(* the offline threshold 0.05 is 50 and the live threshold 5.0 (a          *)
(* percentage) is 50 as well.  Python's None is the empty sequence and a   *)
(* present value x is <<x>>.                                               *)
(***************************************************************************)
EXTENDS Integers, Sequences, FiniteSets, TLC

VARIABLES
    \* ---- extract_rollback_events (parse_k6.py)
    rows,            \* the rows read from the metrics CSV
    idx,             \* the loop variable i (1-based), the row being looked at
    consecutive_bad, \* the local counter
    events,          \* the events dict that is returned
    opc,             \* "loop" while iterating, "done" once the function returned
    \* ---- RollbackDetector.monitor_and_detect (rollback_detector.py)
    baseline_p99,        \* module global, <<>> until set_baseline
    baseline_error_rate, \* module global, <<>> until set_baseline
    iteration,           \* local counter of loop passes
    metrics,             \* local: what get_metrics returned, <<>> for None
    should_rollback,     \* local: first component of check_rollback_conditions
    reason,              \* local: second component of check_rollback_conditions
    lpc,                 \* position in monitor_and_detect
    duration_seconds,    \* argument, <<>> for None
    clock,               \* time.time() - start_time
    observed,            \* history: the metrics the loop has evaluated, in order
    log,                 \* history: the lines printed that the claims speak of
    completed,           \* history: loop passes that ran to the end of the body
    \* ---- parse_k6_json (parse_k6.py)
    window_sec,      \* argument
    test_start_time, \* local, <<>> until the first parsable timestamp
    windows,         \* local defaultdict: window_key -> accumulator
    results,         \* the list that is returned
    nrecords,        \* history: number of records consumed
    nskipped,        \* history: number of records skipped for their timestamp
    fed,             \* history: the time buckets that were given a latency sample
    ppc,             \* "read" while consuming records, "done" once returned
    \* ---- calculate_all_metrics (derive_metrics.py)
    dmetrics,        \* metrics: the rows load_csv read
    devents,         \* events: the dict load_events read
    scenario,        \* "canary" or "bluegreen"
    derived,         \* the dict calculate_all_metrics returns, <<>> before
    dpc,             \* "start" before the call, "done" once it returned;
                     \* "suite" and "suite_done" for a run of run_experiment
    \* ---- statistical_analysis.py
    data,              \* bootstrap_ci's data, aggregate_metric's values
    group_a,           \* cliffs_delta's first group, the canary values
    group_b,           \* cliffs_delta's second group, the bluegreen values
    n_bootstrap,       \* argument of bootstrap_ci
    bootstrap_samples, \* local list of bootstrap_ci: the resample means
    agg,               \* locals of aggregate_metric while it calls
                       \* bootstrap_ci, <<>> when bootstrap_ci is called alone
    stat_result,       \* what the function called returns, <<>> before
    called,            \* the function called
    spc                \* position in it, "done" once it returned

offVars == <<rows, idx, consecutive_bad, events, opc>>
liveVars == <<baseline_p99, baseline_error_rate, iteration, metrics,
              should_rollback, reason, lpc, duration_seconds, clock,
              observed, log, completed>>
parseVars == <<window_sec, test_start_time, windows, results, nrecords,
               nskipped, fed, ppc>>
deriveVars == <<dmetrics, devents, scenario, derived, dpc>>
statVars == <<data, group_a, group_b, n_bootstrap, bootstrap_samples, agg,
              stat_result, called, spc>>
vars == <<offVars, liveVars, parseVars, deriveVars, statVars>>

None == <<>>
Some(x) == <<x>>

----------------------------------------------------------------------------
(* Bounds *)

\* longest window series replayed offline
MaxLen == 4
\* most passes of the live loop
MaxPolls == 3
\* most records fed to the aggregator
MaxRecords == 4
\* longest window series of the short runs given to calculate_all_metrics
MaxWindows == 3
\* most runs of a scenario, that is, most values of a metric
MaxRuns == 3

----------------------------------------------------------------------------
(* Program constants *)

DeploymentStart == 120
P99Threshold == 500
ErrorRatePerMille == 50
RequiredConsecutive == 2
WarmupSeconds == 60
DefaultWindowSec == 10
\* P99_THRESHOLD_MULTIPLIER = 1.5 = 3 / 2
P99MultiplierNum == 3
P99MultiplierDen == 2
\* ERROR_RATE_THRESHOLD = 5.0 percent
LiveErrorRatePerMille == 50
IntervalSeconds == 5

----------------------------------------------------------------------------
(* Window rows as parse_k6_json writes them: one per time bucket, ordered  *)
(* by bucket, window_end = window_start + window_sec.                      *)

\* the four ways a window can sit against the two thresholds
MetricClasses ==
    { [p99_ms |-> 80,  error_rate |-> 0],
      [p99_ms |-> 600, error_rate |-> 0],
      [p99_ms |-> 80,  error_rate |-> 80],
      [p99_ms |-> 700, error_rate |-> 90] }

\* bucket 11 lies before the deployment, the others after it
Buckets == 11 .. (11 + MaxLen)

\* seconds into its bucket at which a window's first sample arrived
Skews == {0, 5}

MkRow(k, skew, c) ==
    [window_start |-> k * DefaultWindowSec + skew,
     window_end   |-> k * DefaultWindowSec + skew + DefaultWindowSec,
     p99_ms       |-> c.p99_ms,
     error_rate   |-> c.error_rate]

RECURSIVE SeriesFrom(_, _, _)
\* every series of at most n rows over buckets >= lo, in bucket order
SeriesFrom(lo, n, skew) ==
    IF n = 0 THEN { <<>> }
    ELSE { <<>> } \cup
         UNION { { <<MkRow(k, skew, c)>> \o rest :
                     c \in MetricClasses,
                     rest \in SeriesFrom(k + 1, n - 1, skew) } :
                 k \in { b \in Buckets : b >= lo } }

AllSeries == UNION { SeriesFrom(11, MaxLen, skew) : skew \in Skews }

----------------------------------------------------------------------------
(* extract_rollback_events *)

\* the deployment filter left out
IsPostDeploymentAlways(row) == TRUE

IsPostDeployment(row) == row.window_start >= DeploymentStart

\* the error-rate condition left out
IsBadP99Only(row) == row.p99_ms > P99Threshold

IsBad(row) == row.p99_ms > P99Threshold \/ row.error_rate > ErrorRatePerMille

\* the error-rate condition looked at first
TriggerReasonErrorFirst(row) ==
    IF row.error_rate > ErrorRatePerMille THEN "error_rate_threshold" ELSE "p99_threshold"

TriggerReason(row) ==
    IF row.p99_ms > P99Threshold THEN "p99_threshold" ELSE "error_rate_threshold"

TriggerTime(row) == row.window_start

InitialEvents ==
    [rollback_triggered      |-> FALSE,
     rollback_time           |-> None,
     trigger_reason          |-> None,
     consecutive_bad_windows |-> 0,
     deployment_start        |-> DeploymentStart]

TriggeredEvents(ev, row, cb) ==
    [ev EXCEPT !.rollback_triggered      = TRUE,
               !.rollback_time           = Some(TriggerTime(row)),
               !.trigger_reason          = Some(TriggerReason(row)),
               !.consecutive_bad_windows = cb]

ReachesRequired(cb) == cb >= RequiredConsecutive

OffInit ==
    /\ rows \in AllSeries
    /\ idx = 1
    /\ consecutive_bad = 0
    /\ events = InitialEvents
    /\ opc = "loop"

\* a row before the deployment: continue
SkipRow ==
    /\ opc = "loop" /\ idx <= Len(rows)
    /\ ~IsPostDeployment(rows[idx])
    /\ idx' = idx + 1
    /\ UNCHANGED <<rows, consecutive_bad, events, opc>>
    /\ UNCHANGED <<liveVars, parseVars, deriveVars, statVars>>

\* a bad row that does not complete the run of bad rows
BadRow ==
    /\ opc = "loop" /\ idx <= Len(rows)
    /\ IsPostDeployment(rows[idx]) /\ IsBad(rows[idx])
    /\ ~ReachesRequired(consecutive_bad + 1)
    /\ consecutive_bad' = consecutive_bad + 1
    /\ idx' = idx + 1
    /\ UNCHANGED <<rows, events, opc>>
    /\ UNCHANGED <<liveVars, parseVars, deriveVars, statVars>>

\* the break left out: events is filled and the loop goes on
TriggerRowNoBreak ==
    /\ opc = "loop" /\ idx <= Len(rows)
    /\ IsPostDeployment(rows[idx]) /\ IsBad(rows[idx])
    /\ ReachesRequired(consecutive_bad + 1)
    /\ consecutive_bad' = consecutive_bad + 1
    /\ events' = TriggeredEvents(events, rows[idx], consecutive_bad + 1)
    /\ idx' = idx + 1
    /\ UNCHANGED <<rows, opc>>
    /\ UNCHANGED <<liveVars, parseVars, deriveVars, statVars>>

\* a bad row that completes it: fill events and break
TriggerRow ==
    /\ opc = "loop" /\ idx <= Len(rows)
    /\ IsPostDeployment(rows[idx]) /\ IsBad(rows[idx])
    /\ ReachesRequired(consecutive_bad + 1)
    /\ consecutive_bad' = consecutive_bad + 1
    /\ events' = TriggeredEvents(events, rows[idx], consecutive_bad + 1)
    /\ opc' = "done"
    /\ UNCHANGED <<rows, idx>>
    /\ UNCHANGED <<liveVars, parseVars, deriveVars, statVars>>

\* a good row: reset
GoodRow ==
    /\ opc = "loop" /\ idx <= Len(rows)
    /\ IsPostDeployment(rows[idx]) /\ ~IsBad(rows[idx])
    /\ consecutive_bad' = 0
    /\ idx' = idx + 1
    /\ UNCHANGED <<rows, events, opc>>
    /\ UNCHANGED <<liveVars, parseVars, deriveVars, statVars>>

\* the rows are exhausted: return events
ReturnEvents ==
    /\ opc = "loop" /\ idx > Len(rows)
    /\ opc' = "done"
    /\ UNCHANGED <<rows, idx, consecutive_bad, events>>
    /\ UNCHANGED <<liveVars, parseVars, deriveVars, statVars>>

----------------------------------------------------------------------------
(* RollbackDetector: check_rollback_conditions and monitor_and_detect *)

\* what the metrics endpoint returns for a window of the given class
LiveMetrics(c) == [p99_latency_ms |-> c.p99_ms, error_rate |-> c.error_rate]

\* the baselines main() can leave behind, and the unset module globals
Baselines ==
    { [p99 |-> None,      error_rate |-> None],
      [p99 |-> Some(100), error_rate |-> Some(0)],
      [p99 |-> Some(400), error_rate |-> Some(10)] }

Durations == { None, Some(IntervalSeconds), Some(2 * IntervalSeconds) }

BaselineSet == baseline_p99 # None /\ baseline_error_rate # None

ExceedsP99(m) ==
    m.p99_latency_ms * P99MultiplierDen > baseline_p99[1] * P99MultiplierNum

ExceedsErrorRate(m) == m.error_rate > LiveErrorRatePerMille

\* first component of check_rollback_conditions
CheckShould(m) == BaselineSet /\ (ExceedsP99(m) \/ ExceedsErrorRate(m))

\* second component, the message reduced to the branch that produced it
CheckReason(m) ==
    IF ~BaselineSet THEN "baseline_not_set"
    ELSE IF ExceedsP99(m) THEN "p99_threshold"
    ELSE IF ExceedsErrorRate(m) THEN "error_rate_threshold"
    ELSE "normal"

LiveInit ==
    /\ \E b \in Baselines :
          /\ baseline_p99 = b.p99
          /\ baseline_error_rate = b.error_rate
    /\ duration_seconds \in Durations
    /\ iteration = 0
    /\ metrics = None
    /\ should_rollback = FALSE
    /\ reason = None
    /\ lpc = "top"
    /\ clock = 0
    /\ observed = <<>>
    /\ log = <<>>
    /\ completed = 0

\* while True: iteration += 1
Top ==
    /\ lpc = "top"
    /\ iteration < MaxPolls
    /\ iteration' = iteration + 1
    /\ lpc' = "fetch"
    /\ UNCHANGED <<baseline_p99, baseline_error_rate, metrics, should_rollback,
                   reason, duration_seconds, clock, observed, log, completed>>
    /\ UNCHANGED <<offVars, parseVars, deriveVars, statVars>>

\* get_metrics returns the endpoint's document
FetchOk ==
    /\ lpc = "fetch"
    /\ \E c \in MetricClasses : metrics' = Some(LiveMetrics(c))
    /\ lpc' = "check"
    /\ UNCHANGED <<baseline_p99, baseline_error_rate, iteration, should_rollback,
                   reason, duration_seconds, clock, observed, log, completed>>
    /\ UNCHANGED <<offVars, parseVars, deriveVars, statVars>>

\* a missing poll that also clears the last decision
FetchFailResets ==
    /\ lpc = "fetch"
    /\ metrics' = None
    /\ should_rollback' = FALSE
    /\ reason' = None
    /\ log' = Append(log, "unable")
    /\ lpc' = "duration"
    /\ completed' = completed + 1
    /\ UNCHANGED <<baseline_p99, baseline_error_rate, iteration,
                   duration_seconds, clock, observed>>
    /\ UNCHANGED <<offVars, parseVars, deriveVars, statVars>>

\* get_metrics catches the RequestException and returns None; the loop's else branch
FetchFail ==
    /\ lpc = "fetch"
    /\ metrics' = None
    /\ log' = Append(log, "unable")
    /\ lpc' = "duration"
    /\ completed' = completed + 1
    /\ UNCHANGED <<baseline_p99, baseline_error_rate, iteration, should_rollback,
                   reason, duration_seconds, clock, observed>>
    /\ UNCHANGED <<offVars, parseVars, deriveVars, statVars>>

\* should_rollback, reason = self.check_rollback_conditions(metrics)
Check ==
    /\ lpc = "check"
    /\ should_rollback' = CheckShould(metrics[1])
    /\ reason' = Some(CheckReason(metrics[1]))
    /\ observed' = Append(observed, metrics[1])
    /\ IF CheckShould(metrics[1])
       THEN /\ lpc' = "rollback"
            /\ log' = Append(log, "detected")
            /\ UNCHANGED completed
       ELSE /\ lpc' = "duration"
            /\ completed' = completed + 1
            /\ UNCHANGED log
    /\ UNCHANGED <<baseline_p99, baseline_error_rate, iteration, metrics,
                   duration_seconds, clock>>
    /\ UNCHANGED <<offVars, parseVars, deriveVars, statVars>>

\* trigger_rollback returned True: break
RollbackOk ==
    /\ lpc = "rollback"
    /\ log' = Append(log, "rollback_ok")
    /\ lpc' = "finally"
    /\ completed' = completed + 1
    /\ UNCHANGED <<baseline_p99, baseline_error_rate, iteration, metrics,
                   should_rollback, reason, duration_seconds, clock, observed>>
    /\ UNCHANGED <<offVars, parseVars, deriveVars, statVars>>

\* a failed rollback that ends the loop
RollbackFailBreaks ==
    /\ lpc = "rollback"
    /\ log' = Append(log, "rollback_failed")
    /\ lpc' = "finally"
    /\ completed' = completed + 1
    /\ UNCHANGED <<baseline_p99, baseline_error_rate, iteration, metrics,
                   should_rollback, reason, duration_seconds, clock, observed>>
    /\ UNCHANGED <<offVars, parseVars, deriveVars, statVars>>

\* trigger_rollback returned False (non-zero exit, timeout, exception)
RollbackFail ==
    /\ lpc = "rollback"
    /\ log' = Append(log, "rollback_failed")
    /\ lpc' = "duration"
    /\ completed' = completed + 1
    /\ UNCHANGED <<baseline_p99, baseline_error_rate, iteration, metrics,
                   should_rollback, reason, duration_seconds, clock, observed>>
    /\ UNCHANGED <<offVars, parseVars, deriveVars, statVars>>

DurationOver == duration_seconds # None /\ clock >= duration_seconds[1]

\* if duration_seconds and elapsed >= duration_seconds: break
DurationReached ==
    /\ lpc = "duration"
    /\ DurationOver
    /\ lpc' = "finally"
    /\ UNCHANGED <<baseline_p99, baseline_error_rate, iteration, metrics,
                   should_rollback, reason, duration_seconds, clock, observed,
                   log, completed>>
    /\ UNCHANGED <<offVars, parseVars, deriveVars, statVars>>

DurationNotReached ==
    /\ lpc = "duration"
    /\ ~DurationOver
    /\ lpc' = "sleep"
    /\ UNCHANGED <<baseline_p99, baseline_error_rate, iteration, metrics,
                   should_rollback, reason, duration_seconds, clock, observed,
                   log, completed>>
    /\ UNCHANGED <<offVars, parseVars, deriveVars, statVars>>

\* time.sleep(interval_seconds)
Sleep ==
    /\ lpc = "sleep"
    /\ clock' = clock + IntervalSeconds
    /\ lpc' = "top"
    /\ UNCHANGED <<baseline_p99, baseline_error_rate, iteration, metrics,
                   should_rollback, reason, duration_seconds, observed, log,
                   completed>>
    /\ UNCHANGED <<offVars, parseVars, deriveVars, statVars>>

\* the places inside the try block
InTry == lpc \in {"top", "fetch", "check", "rollback", "duration", "sleep"}

\* KeyboardInterrupt is raised where the loop stands; neither get_metrics
\* (except RequestException) nor trigger_rollback (except Exception) catches it
Interrupt ==
    /\ InTry
    /\ log' = Append(log, "interrupted")
    /\ lpc' = "finally"
    /\ UNCHANGED <<baseline_p99, baseline_error_rate, iteration, metrics,
                   should_rollback, reason, duration_seconds, clock, observed,
                   completed>>
    /\ UNCHANGED <<offVars, parseVars, deriveVars, statVars>>

\* finally: print the summary
Finally ==
    /\ lpc = "finally"
    /\ log' = Append(log, "summary")
    /\ lpc' = "done"
    /\ UNCHANGED <<baseline_p99, baseline_error_rate, iteration, metrics,
                   should_rollback, reason, duration_seconds, clock, observed,
                   completed>>
    /\ UNCHANGED <<offVars, parseVars, deriveVars, statVars>>

----------------------------------------------------------------------------
(* parse_k6_json *)

\* the window widths tried
WindowSecs == {5, DefaultWindowSec}

\* the timestamps of the Point records, in seconds
Timestamps == {0, 65, 72}

\* http_req_duration points: the latency value
DurationRecords ==
    { [metric |-> "http_req_duration", ts_ok |-> TRUE, time |-> t,
       value |-> v, status |-> "", expected_response |-> "true"] :
      t \in Timestamps, v \in {0, 50, 700} }

\* http_reqs points: the status and expected_response tags
ReqsRecords ==
    { [metric |-> "http_reqs", ts_ok |-> TRUE, time |-> t,
       value |-> 1, status |-> tg[1], expected_response |-> tg[2]] :
      t \in Timestamps,
      tg \in { <<"200", "true">>, <<"500", "true">>, <<"", "false">> } }

\* a point whose time is missing or does not parse
BadTimeRecords ==
    { [metric |-> "http_req_duration", ts_ok |-> FALSE, time |-> 0,
       value |-> 50, status |-> "", expected_response |-> "true"] }

Records == DurationRecords \cup ReqsRecords \cup BadTimeRecords

\* the defaultdict's factory
EmptyWindow == [latencies |-> <<>>, errors |-> 0, total |-> 0, start_time |-> None]

NoWindows == [k \in {} |-> EmptyWindow]

\* windows[key], created on first access
WindowAt(ws, key) == IF key \in DOMAIN ws THEN ws[key] ELSE EmptyWindow

Put(ws, key, w) == [k \in DOMAIN ws \cup {key} |-> IF k = key THEN w ELSE ws[k]]

\* test_start_time after the record: the first parsable timestamp
StartAfter(tst, r) == IF tst = None THEN Some(r.time) ELSE tst

ElapsedSeconds(tst, r) == r.time - StartAfter(tst, r)[1]

InWarmup(elapsed) == elapsed < WarmupSeconds

\* int(elapsed_seconds / window_sec), elapsed_seconds >= 0
WindowKey(elapsed, w) == elapsed \div w

\* the http_req_duration branch
AddLatency(ws, key, elapsed, value) ==
    LET old == WindowAt(ws, key)
    IN  Put(ws, key,
            [old EXCEPT !.start_time = IF old.start_time = None
                                       THEN Some(elapsed) ELSE old.start_time,
                        !.latencies = Append(old.latencies, value),
                        !.total = old.total + 1])

IsErrorRecord(r) ==
    \/ r.status # "" /\ r.status # "200"
    \/ r.expected_response = "false"

\* the http_reqs branch
AddError(ws, key) ==
    LET old == WindowAt(ws, key)
    IN  Put(ws, key, [old EXCEPT !.errors = old.errors + 1])

\* the loop body's effect on windows
Accumulate(ws, tst, r, w) ==
    LET elapsed == ElapsedSeconds(tst, r)
        key == WindowKey(elapsed, w)
    IN  IF InWarmup(elapsed) THEN ws
        ELSE IF r.metric = "http_req_duration"
             THEN IF r.value > 0 THEN AddLatency(ws, key, elapsed, r.value) ELSE ws
        ELSE IF r.metric = "http_reqs"
             THEN IF IsErrorRecord(r) THEN AddError(ws, key) ELSE ws
        ELSE ws

RECURSIVE Insert(_, _)
\* x put into the ascending sequence s
Insert(x, s) ==
    IF s = <<>> THEN <<x>>
    ELSE IF x <= Head(s) THEN <<x>> \o s
    ELSE <<Head(s)>> \o Insert(x, Tail(s))

\* the latencies left in arrival order
Unsorted(s) == s

RECURSIVE Sorted(_)
\* sorted(window['latencies'])
Sorted(s) == IF s = <<>> THEN <<>> ELSE Insert(Head(s), Sorted(Tail(s)))

Min2(a, b) == IF a < b THEN a ELSE b
Max2(a, b) == IF a > b THEN a ELSE b

\* max(0, min(n - 1, int(n * pct / 100))), as a 1-based position
PercentileIdx(n, pct) == Max2(0, Min2(n - 1, (n * pct) \div 100)) + 1

WindowStart(win, key, w) ==
    IF win.start_time # None THEN win.start_time[1] ELSE key * w

WindowEnd(win, key, w) == WindowStart(win, key, w) + w

\* the result dict of one window; error_rate in per-mille, rounded down
WindowResult(win, key, w) ==
    LET lat == Sorted(win.latencies)
        n == Len(lat)
    IN  [window_key     |-> key,
         window_start   |-> WindowStart(win, key, w),
         window_end     |-> WindowEnd(win, key, w),
         p50_ms         |-> lat[PercentileIdx(n, 50)],
         p95_ms         |-> lat[PercentileIdx(n, 95)],
         p99_ms         |-> lat[PercentileIdx(n, 99)],
         error_count    |-> win.errors,
         total_requests |-> win.total,
         error_rate     |-> IF win.total > 0
                            THEN (win.errors * 1000) \div win.total ELSE 0]

RECURSIVE ResultsOver(_, _, _)
\* the windows of the keys in ks, by ascending key, those without latencies left out
ResultsOver(ws, ks, w) ==
    IF ks = {} THEN <<>>
    ELSE LET k == CHOOSE x \in ks : \A y \in ks : x <= y
             rest == ResultsOver(ws, ks \ {k}, w)
         IN  IF ws[k].latencies = <<>> THEN rest
             ELSE <<WindowResult(ws[k], k, w)>> \o rest

\* the bucket floor(elapsed / w) of a latency sample with a parsable,
\* non-negative elapsed time, added to those already fed
FedAfter(f, tst, r, w) ==
    LET elapsed == r.time - (IF tst = None THEN r.time ELSE tst[1])
    IN  IF r.ts_ok /\ r.metric = "http_req_duration" /\ r.value > 0 /\ elapsed >= 0
        THEN f \cup { elapsed \div w }
        ELSE f

ParseInit ==
    /\ window_sec \in WindowSecs
    /\ test_start_time = None
    /\ windows = NoWindows
    /\ results = <<>>
    /\ nrecords = 0
    /\ nskipped = 0
    /\ fed = {}
    /\ ppc = "read"

\* one pass of the loop over all_data
ProcessRecord ==
    /\ ppc = "read"
    /\ nrecords < MaxRecords
    /\ \E r \in Records :
         IF r.ts_ok
         THEN /\ test_start_time' = StartAfter(test_start_time, r)
              /\ windows' = Accumulate(windows, test_start_time, r, window_sec)
              /\ fed' = FedAfter(fed, test_start_time, r, window_sec)
              /\ UNCHANGED nskipped
         ELSE /\ nskipped' = nskipped + 1
              /\ UNCHANGED <<test_start_time, windows, fed>>
    /\ nrecords' = nrecords + 1
    /\ UNCHANGED <<window_sec, results, ppc>>
    /\ UNCHANGED <<offVars, liveVars, deriveVars, statVars>>

\* what parse_k6_json hands back: the list of windows and nothing else
Returned == [windows |-> results]

\* the records are exhausted: compute the statistics and return
EmitResults ==
    /\ ppc = "read"
    /\ results' = ResultsOver(windows, DOMAIN windows, window_sec)
    /\ ppc' = "done"
    /\ UNCHANGED <<window_sec, test_start_time, windows, nrecords, nskipped, fed>>
    /\ UNCHANGED <<offVars, liveVars, deriveVars, statVars>>

----------------------------------------------------------------------------------------------------------------------------------------
(* extract_rollback_events as a function of the rows: the same loop, folded *)

RECURSIVE ReplayFrom(_, _, _)
ReplayFrom(rs, i, cb) ==
    IF i > Len(rs) THEN [index |-> 0, events |-> InitialEvents]
    ELSE IF ~IsPostDeployment(rs[i]) THEN ReplayFrom(rs, i + 1, cb)
    ELSE IF IsBad(rs[i])
         THEN IF ReachesRequired(cb + 1)
              THEN [index |-> i,
                    events |-> TriggeredEvents(InitialEvents, rs[i], cb + 1)]
              ELSE ReplayFrom(rs, i + 1, cb + 1)
    ELSE ReplayFrom(rs, i + 1, 0)

Replay(rs) == ReplayFrom(rs, 1, 0)

----------------------------------------------------------------------------
(* derive_metrics.py.  A mean or a share is kept as a fraction num / den   *)
(* of whole numbers and compared by cross-multiplication.  Traffic shares  *)
(* are per mille (traffic_pct = 0.05 is 50), error rates of a row are per  *)
(* mille as above, and error_rate_during_regression is the plain fraction  *)
(* total_errors / total_requests.                                          *)

BaselineWindow == 60
BaselineFallbackWindows == 6
DefaultBaselineP99 == 100
\* 0.01
DefaultBaselineErrorRate == 10
\* CANARY_5_PCT_TIME and BLUEGREEN_SWITCH_TIME
Canary5PctTime == 120
BlueGreenSwitchTime == 120
InferP99Threshold == 500
\* 0.05
InferErrorRatePerMille == 50
\* baseline_p99 * 1.1 = baseline_p99 * 11 / 10
RecoveryP99Num == 11
RecoveryP99Den == 10
\* baseline_error_rate + 0.01
RecoveryErrorMargin == 10
\* the phases of the canary rollout: 60 s at 5%, 60 s at 25%, then 100%
CanaryPhaseSeconds == 60
CanaryPhase2End == 120
CanaryPct1 == 50
CanaryPct2 == 250
FullTraffic == 1000
RegressionFallbackWindows == 3

Frac(n, d) == [num |-> n, den |-> d]

\* the rows of a run: a quiet window, a slow one, a slow and failing one
DeriveClasses ==
    { [p99_ms |-> 80,  error_rate |-> 0,  total_requests |-> 100, error_count |-> 0],
      [p99_ms |-> 600, error_rate |-> 0,  total_requests |-> 50,  error_count |-> 0],
      [p99_ms |-> 700, error_rate |-> 90, total_requests |-> 200, error_count |-> 18] }

\* bucket 5 lies in the first minute, 11 before the deployment, 12 and 13
\* in the first rollout phase, 18 in the second, 25 in the third
DeriveBuckets == {5, 11, 12, 13, 18, 25}

MkMetric(k, c) ==
    [window_start   |-> k * DefaultWindowSec,
     window_end     |-> k * DefaultWindowSec + DefaultWindowSec,
     p99_ms         |-> c.p99_ms,
     error_rate     |-> c.error_rate,
     total_requests |-> c.total_requests,
     error_count    |-> c.error_count]

RECURSIVE ShortSeries(_, _)
\* every series of at most n rows over DeriveBuckets above lo, in bucket order
ShortSeries(lo, n) ==
    IF n = 0 THEN { <<>> }
    ELSE { <<>> } \cup
         UNION { { <<MkMetric(k, c)>> \o rest :
                     c \in DeriveClasses,
                     rest \in ShortSeries(k, n - 1) } :
                 k \in { b \in DeriveBuckets : b > lo } }

RECURSIVE RunOf(_, _)
\* every gap-free series of n rows from bucket k on, quiet or failing
RunOf(k, n) ==
    IF n = 0 THEN { <<>> }
    ELSE { <<MkMetric(k, c)>> \o rest :
             c \in { d \in DeriveClasses : d.p99_ms # 600 },
             rest \in RunOf(k + 1, n - 1) }

\* a run as parse_k6_json writes it: the first window starts at 60 s, and
\* there is one window more than the baseline fallback takes
LongSeries == RunOf(WarmupSeconds \div DefaultWindowSec, BaselineFallbackWindows + 1)

DeriveSeries == ShortSeries(0, MaxWindows) \cup LongSeries

\* rollout_stages as extract_rollback_events writes them
CanaryStages ==
    << [time |-> 120, traffic_pct |-> 50],
       [time |-> 180, traffic_pct |-> 250],
       [time |-> 240, traffic_pct |-> 1000] >>
BlueGreenStages == << [time |-> 120, traffic_pct |-> 1000] >>
\* an events file with a schedule of its own: half of the traffic at 120 s
SplitStages == << [time |-> 120, traffic_pct |-> 500] >>

Runs ==
    { <<"canary", CanaryStages>>,
      <<"bluegreen", BlueGreenStages>>,
      <<"bluegreen", SplitStages>> }

\* the events file extract_rollback_events wrote for the series
DetectorEvents(ms, stages) ==
    LET ev == Replay(ms).events
    IN  [rollback_triggered |-> ev.rollback_triggered,
         rollback_time      |-> ev.rollback_time,
         deployment_start   |-> Some(ev.deployment_start),
         rollout_stages     |-> stages]

\* no events file: the default of load_events
MissingEvents ==
    [rollback_triggered |-> FALSE,
     rollback_time      |-> None,
     deployment_start   |-> None,
     rollout_stages     |-> <<>>]

\* an events file of a triggered run, with the trigger at the start or at
\* the end of a window after the deployment, or without a trigger time
TriggeredAt(rt, stages) ==
    [rollback_triggered |-> TRUE,
     rollback_time      |-> rt,
     deployment_start   |-> Some(DeploymentStart),
     rollout_stages     |-> stages]

EventsFor(ms, stages) ==
    LET after == { j \in 1 .. Len(ms) : ms[j].window_start >= DeploymentStart }
    IN  { DetectorEvents(ms, stages), MissingEvents }
        \cup { TriggeredAt(Some(ms[i].window_start), stages) : i \in after }
        \cup { TriggeredAt(Some(ms[i].window_end), stages) : i \in after }
        \cup { TriggeredAt(None, stages) : i \in after }

RECURSIVE SumField(_, _)
\* sum(m[f] for m in ms)
SumField(ms, f) == IF ms = <<>> THEN 0 ELSE Head(ms)[f] + SumField(Tail(ms), f)

\* the fallback slice taken whole
FirstNAll(ms, n) == ms

\* ms[:n]
FirstN(ms, n) == SubSeq(ms, 1, Min2(n, Len(ms)))

CalculateBaseline(ms) ==
    LET InBaselineWindow(m) == m.window_start < BaselineWindow
        early == SelectSeq(ms, InBaselineWindow)
        baseline_metrics ==
            IF early = <<>> THEN FirstN(ms, BaselineFallbackWindows) ELSE early
    IN  IF baseline_metrics = <<>>
        THEN [p99_ms     |-> Frac(DefaultBaselineP99, 1),
              error_rate |-> Frac(DefaultBaselineErrorRate, 1)]
        ELSE [p99_ms     |-> Frac(SumField(baseline_metrics, "p99_ms"),
                                  Len(baseline_metrics)),
              error_rate |-> Frac(SumField(baseline_metrics, "error_rate"),
                                  Len(baseline_metrics))]

\* m['p99_ms'] > 500 or m['error_rate'] > 0.05
ExceedsInferred(m) ==
    m.p99_ms > InferP99Threshold \/ m.error_rate > InferErrorRatePerMille

\* metrics.index(m): the first position holding a row equal to m
IndexOf(ms, m) ==
    CHOOSE j \in 1 .. Len(ms) : ms[j] = m /\ \A k \in 1 .. (j - 1) : ms[k] # m

RECURSIVE InferFrom(_, _, _, _)
\* the loop that infers rollback_time, from row i on; rt when it ends
\* without a break
InferFrom(ms, i, ds, rt) ==
    IF i > Len(ms) THEN rt
    ELSE LET m == ms[i]
             next_idx == IndexOf(ms, m) + 1
         IN  IF /\ m.window_start >= ds
                /\ ExceedsInferred(m)
                /\ next_idx <= Len(ms)
                /\ ExceedsInferred(ms[next_idx])
             THEN Some(ms[next_idx].window_end)
             ELSE InferFrom(ms, i + 1, ds, rt)

InferredDeploymentStart(sc) ==
    IF sc = "canary" THEN Canary5PctTime ELSE BlueGreenSwitchTime

CalculateTtd(ms, ev, sc) ==
    IF ~ev.rollback_triggered THEN None
    ELSE LET infer == ev.deployment_start = None \/ ev.rollback_time = None
             deployment_start ==
                 IF infer THEN InferredDeploymentStart(sc)
                 ELSE ev.deployment_start[1]
             rollback_time ==
                 IF infer THEN InferFrom(ms, 1, deployment_start, ev.rollback_time)
                 ELSE ev.rollback_time
         IN  IF rollback_time = None THEN None
             ELSE Some(Max2(0, rollback_time[1] - deployment_start))

\* either recovery criterion taken for both
RecoveredEither(m, b) ==
    \/ m.p99_ms * RecoveryP99Den * b.p99_ms.den < RecoveryP99Num * b.p99_ms.num
    \/ m.error_rate * b.error_rate.den
         < b.error_rate.num + RecoveryErrorMargin * b.error_rate.den

\* p99 < baseline_p99 * 1.1 and error_rate < baseline_error_rate + 0.01
Recovered(m, b) ==
    /\ m.p99_ms * RecoveryP99Den * b.p99_ms.den < RecoveryP99Num * b.p99_ms.num
    /\ m.error_rate * b.error_rate.den
         < b.error_rate.num + RecoveryErrorMargin * b.error_rate.den

RECURSIVE RecoveryFrom(_, _, _, _)
\* the recovery loop from row i on, then the fallback on the last window
RecoveryFrom(ms, i, rt, b) ==
    IF i > Len(ms)
    THEN IF ms # <<>> THEN Some(Max2(0, ms[Len(ms)].window_end - rt)) ELSE None
    ELSE IF ms[i].window_start >= rt /\ Recovered(ms[i], b)
         THEN Some(Max2(0, ms[i].window_end - rt))
         ELSE RecoveryFrom(ms, i + 1, rt, b)

CalculateRecoveryTime(ms, ev) ==
    IF ~ev.rollback_triggered THEN None
    ELSE IF ev.rollback_time = None THEN None
    ELSE RecoveryFrom(ms, 1, ev.rollback_time[1], CalculateBaseline(ms))

NoImpact ==
    [traffic_to_v2_pct              |-> Frac(0, 1),
     affected_users_pct             |-> Frac(0, 1),
     total_requests_before_rollback |-> 0,
     error_rate_during_regression   |-> Frac(0, 1)]

RECURSIVE EstimateFrom(_, _, _)
\* the end of the first bad window after the deployment, None without one
EstimateFrom(ms, i, ds) ==
    IF i > Len(ms) THEN None
    ELSE IF ms[i].window_start >= ds /\ ExceedsInferred(ms[i])
         THEN Some(ms[i].window_end)
         ELSE EstimateFrom(ms, i + 1, ds)

\* the traffic share of the canary branch, total_time seconds after the
\* deployment
CanaryTraffic(total_time) ==
    IF total_time <= 0 THEN Frac(0, 1)
    ELSE IF total_time <= CanaryPhaseSeconds THEN Frac(CanaryPct1, 1)
    ELSE IF total_time <= CanaryPhase2End
         THEN Frac(CanaryPhaseSeconds * CanaryPct1
                     + (total_time - CanaryPhaseSeconds) * CanaryPct2,
                   total_time)
         ELSE Frac(CanaryPhaseSeconds * CanaryPct1
                     + CanaryPhaseSeconds * CanaryPct2
                     + (total_time - CanaryPhase2End) * FullTraffic,
                   total_time)

BlueGreenTraffic(rt, ds) == IF rt > ds THEN Frac(FullTraffic, 1) ELSE Frac(0, 1)

\* the rows the requests and errors are summed over
RegressionMetrics(ms, ds, rt) ==
    LET InRegression(m) == ds <= m.window_start /\ m.window_start < rt
        After(m) == m.window_start >= ds
        regression_metrics == SelectSeq(ms, InRegression)
    IN  IF regression_metrics = <<>>
        THEN FirstN(SelectSeq(ms, After), RegressionFallbackWindows)
        ELSE regression_metrics

\* every triggered events dict read here carries its deployment_start
CalculateImpactScope(ms, ev, sc) ==
    IF ~ev.rollback_triggered THEN NoImpact
    ELSE LET deployment_start == ev.deployment_start[1]
             rollback_time ==
                 IF ev.rollback_time = None
                 THEN EstimateFrom(ms, 1, deployment_start)
                 ELSE ev.rollback_time
         IN  IF rollback_time = None THEN NoImpact
             ELSE LET rt == rollback_time[1]
                      traffic_pct ==
                          IF sc = "canary"
                          THEN CanaryTraffic(rt - deployment_start)
                          ELSE BlueGreenTraffic(rt, deployment_start)
                      regression_metrics ==
                          RegressionMetrics(ms, deployment_start, rt)
                      total_requests == SumField(regression_metrics, "total_requests")
                      total_errors == SumField(regression_metrics, "error_count")
                      error_rate_during_regression ==
                          IF total_requests > 0
                          THEN Frac(total_errors, total_requests)
                          ELSE Frac(0, 1)
                  IN  [traffic_to_v2_pct |-> traffic_pct,
                       affected_users_pct |->
                           Frac(traffic_pct.num * error_rate_during_regression.num,
                                traffic_pct.den * error_rate_during_regression.den),
                       total_requests_before_rollback |-> total_requests,
                       error_rate_during_regression |-> error_rate_during_regression]

DeriveInit ==
    /\ dmetrics \in DeriveSeries
    /\ \E run \in Runs :
          /\ scenario = run[1]
          /\ devents \in EventsFor(dmetrics, run[2])
    /\ derived = None
    /\ dpc = "start"

CalculateAllMetrics ==
    /\ dpc = "start"
    /\ derived' = Some(
          [baseline              |-> CalculateBaseline(dmetrics),
           ttd_seconds           |-> CalculateTtd(dmetrics, devents, scenario),
           recovery_time_seconds |-> CalculateRecoveryTime(dmetrics, devents),
           impact_scope          |-> CalculateImpactScope(dmetrics, devents, scenario),
           rollback_triggered    |-> devents.rollback_triggered])
    /\ dpc' = "done"
    /\ UNCHANGED <<dmetrics, devents, scenario>>
    /\ UNCHANGED <<offVars, liveVars, parseVars, statVars>>

----------------------------------------------------------------------------
(* statistical_analysis.py.  The per-run values are whole numbers; a mean, *)
(* a variance, a percentile or an effect size is a fraction num / den.     *)

\* the values a metric takes in a run
RunValues == {10, 20}

RECURSIVE ListsOf(_)
\* every list of n run values
ListsOf(n) ==
    IF n = 0 THEN { <<>> }
    ELSE { <<v>> \o l : v \in RunValues, l \in ListsOf(n - 1) }

\* the value lists of up to MaxRuns runs, and two lists of distinct values
\* of which one lies below the other
ValueLists == UNION { ListsOf(n) : n \in 0 .. MaxRuns } \cup { <<1, 2, 3>>, <<4, 5, 6>> }

RECURSIVE SumSeq(_)
SumSeq(l) == IF l = <<>> THEN 0 ELSE Head(l) + SumSeq(Tail(l))

StatIdleLocals ==
    /\ n_bootstrap = 0 /\ bootstrap_samples = <<>> /\ agg = None
    /\ stat_result = None

\* the loss of a pair left uncounted
DominanceGreaterOnly(a_val, b_val) == IF a_val > b_val THEN 1 ELSE 0

\* the contribution of one pair to dominances
Dominance(a_val, b_val) ==
    IF a_val > b_val THEN 1 ELSE IF a_val < b_val THEN 0 - 1 ELSE 0

RECURSIVE DominancesFrom(_, _, _, _)
\* the two nested loops from pair (i, j) on
DominancesFrom(ga, gb, i, j) ==
    IF i > Len(ga) THEN 0
    ELSE IF j > Len(gb) THEN DominancesFrom(ga, gb, i + 1, 1)
    ELSE Dominance(ga[i], gb[j]) + DominancesFrom(ga, gb, i, j + 1)

CliffsDeltaOf(ga, gb) ==
    IF Len(ga) = 0 \/ Len(gb) = 0 THEN Frac(0, 1)
    ELSE Frac(DominancesFrom(ga, gb, 1, 1), Len(ga) * Len(gb))

CliffsInit ==
    /\ group_a \in ValueLists /\ group_b \in ValueLists
    /\ data = <<>>
    /\ StatIdleLocals
    /\ called = "cliffs_delta"
    /\ spc = "start"

CliffsDelta ==
    /\ called = "cliffs_delta" /\ spc = "start"
    /\ stat_result' = Some(CliffsDeltaOf(group_a, group_b))
    /\ spc' = "done"
    /\ UNCHANGED <<data, group_a, group_b, n_bootstrap, bootstrap_samples, agg, called>>
    /\ UNCHANGED <<offVars, liveVars, parseVars, deriveVars>>

\* the numbers of resamples tried for n_bootstrap
BootstrapCounts == {1, 2}

\* lower_percentile = 2.5 and upper_percentile = 97.5, in 40ths of 100
PercentileDen == 40
LowerPercentileNum == 1
UpperPercentileNum == 39

\* np.mean(values)
MeanOf(l) == Frac(SumSeq(l), Len(l))

RECURSIVE SumSquares(_)
SumSquares(l) == IF l = <<>> THEN 0 ELSE Head(l) * Head(l) + SumSquares(Tail(l))

\* np.std(values, ddof=1), carried as its square, the sample variance;
\* for a single value it is nan, which is None here
StdOf(l) ==
    IF Len(l) = 1 THEN None
    ELSE Some(Frac(Len(l) * SumSquares(l) - SumSeq(l) * SumSeq(l),
                   Len(l) * (Len(l) - 1)))

\* np.median(values)
MedianOf(l) ==
    LET s == Sorted(l)
        n == Len(l)
    IN  IF n % 2 = 1 THEN Frac(s[(n + 1) \div 2], 1)
        ELSE Frac(s[n \div 2] + s[n \div 2 + 1], 2)

\* the interpolation with the two neighbours added
InterpolateSum(lo, hi, fr) == PercentileDen * lo + fr * (hi + lo)

\* lo + (fr / 40) * (hi - lo), times 40
Interpolate(lo, hi, fr) == PercentileDen * lo + fr * (hi - lo)

\* np.percentile(bootstrap_samples, 100 * pnum / 40), linear interpolation;
\* sums holds the resample sums, each resample mean being sum / n
Percentile(sums, n, pnum) ==
    LET s == Sorted(sums)
        h == (Len(s) - 1) * pnum
        lo == h \div PercentileDen + 1
        hi == Min2(lo + 1, Len(s))
    IN  Frac(Interpolate(s[lo], s[hi], h % PercentileDen), PercentileDen * n)

\* the dict aggregate_metric returns for no value
EmptyAggregate ==
    [mean |-> Frac(0, 1), std |-> Some(Frac(0, 1)), median |-> Frac(0, 1),
     ci_lower |-> Frac(0, 1), ci_upper |-> Frac(0, 1), n |-> 0]

\* what is returned once bootstrap_ci has its bounds: the pair itself, or
\* the dict of aggregate_metric when that is the caller
ReturnWith(lower, upper) ==
    IF agg = None THEN [ci_lower |-> lower, ci_upper |-> upper]
    ELSE [mean |-> agg[1].mean, std |-> agg[1].std, median |-> agg[1].median,
          ci_lower |-> lower, ci_upper |-> upper, n |-> Len(data)]

BootstrapInit ==
    /\ data \in ValueLists
    /\ n_bootstrap \in BootstrapCounts
    /\ group_a = <<>> /\ group_b = <<>>
    /\ bootstrap_samples = <<>> /\ agg = None /\ stat_result = None
    /\ called = "bootstrap_ci"
    /\ spc = "bootstrap_ci"

AggregateInit ==
    /\ data \in ValueLists
    /\ n_bootstrap \in BootstrapCounts
    /\ group_a = <<>> /\ group_b = <<>>
    /\ bootstrap_samples = <<>> /\ agg = None /\ stat_result = None
    /\ called = "aggregate_metric"
    /\ spc = "aggregate_metric"

\* aggregate_metric raising on no value
AggregateEmptyRaises ==
    /\ spc = "aggregate_metric" /\ Len(data) = 0
    /\ stat_result' = Some([raised |-> "ValueError"])
    /\ spc' = "done"
    /\ UNCHANGED <<data, group_a, group_b, n_bootstrap, bootstrap_samples, agg, called>>
    /\ UNCHANGED <<offVars, liveVars, parseVars, deriveVars>>

\* aggregate_metric on no value
AggregateEmpty ==
    /\ spc = "aggregate_metric" /\ Len(data) = 0
    /\ stat_result' = Some(EmptyAggregate)
    /\ spc' = "done"
    /\ UNCHANGED <<data, group_a, group_b, n_bootstrap, bootstrap_samples, agg, called>>
    /\ UNCHANGED <<offVars, liveVars, parseVars, deriveVars>>

\* aggregate_metric up to its call of bootstrap_ci
AggregateStats ==
    /\ spc = "aggregate_metric" /\ Len(data) > 0
    /\ agg' = Some([mean |-> MeanOf(data), std |-> StdOf(data),
                    median |-> MedianOf(data)])
    /\ spc' = "bootstrap_ci"
    /\ UNCHANGED <<data, group_a, group_b, n_bootstrap, bootstrap_samples,
                   stat_result, called>>
    /\ UNCHANGED <<offVars, liveVars, parseVars, deriveVars>>

BootstrapEmpty ==
    /\ spc = "bootstrap_ci" /\ Len(data) = 0
    /\ stat_result' = Some(ReturnWith(Frac(0, 1), Frac(0, 1)))
    /\ spc' = "done"
    /\ UNCHANGED <<data, group_a, group_b, n_bootstrap, bootstrap_samples, agg, called>>
    /\ UNCHANGED <<offVars, liveVars, parseVars, deriveVars>>

BootstrapOne ==
    /\ spc = "bootstrap_ci" /\ Len(data) = 1
    /\ stat_result' = Some(ReturnWith(Frac(data[1], 1), Frac(data[1], 1)))
    /\ spc' = "done"
    /\ UNCHANGED <<data, group_a, group_b, n_bootstrap, bootstrap_samples, agg, called>>
    /\ UNCHANGED <<offVars, liveVars, parseVars, deriveVars>>

\* one pass of the loop: a resample with replacement and its mean
Resample ==
    /\ spc = "bootstrap_ci" /\ Len(data) > 1
    /\ Len(bootstrap_samples) < n_bootstrap
    /\ \E draw \in [1 .. Len(data) -> 1 .. Len(data)] :
          bootstrap_samples' =
              Append(bootstrap_samples,
                     SumSeq([i \in 1 .. Len(data) |-> data[draw[i]]]))
    /\ UNCHANGED <<data, group_a, group_b, n_bootstrap, agg, stat_result, called, spc>>
    /\ UNCHANGED <<offVars, liveVars, parseVars, deriveVars>>

\* the loop is over: the two percentiles of the resample means
Percentiles ==
    /\ spc = "bootstrap_ci" /\ Len(data) > 1
    /\ Len(bootstrap_samples) = n_bootstrap
    /\ stat_result' = Some(ReturnWith(
          Percentile(bootstrap_samples, Len(data), LowerPercentileNum),
          Percentile(bootstrap_samples, Len(data), UpperPercentileNum)))
    /\ spc' = "done"
    /\ UNCHANGED <<data, group_a, group_b, n_bootstrap, bootstrap_samples, agg, called>>
    /\ UNCHANGED <<offVars, liveVars, parseVars, deriveVars>>

\* the bounds 0.2, 0.5 and 0.8 of interpret_effect_size
EffectBounds == << Frac(1, 5), Frac(1, 2), Frac(4, 5) >>

\* the square sq of the effect size lies below the square of the bound b
BelowBound(sq, b) == sq.num * b.den * b.den < b.num * b.num * sq.den

\* interpret_effect_size, on the square of the effect size
InterpretEffectSize(sq) ==
    IF BelowBound(sq, EffectBounds[1]) THEN "negligible"
    ELSE IF BelowBound(sq, EffectBounds[2]) THEN "small"
    ELSE IF BelowBound(sq, EffectBounds[3]) THEN "medium"
    ELSE "large"

\* results.get(metric, {}).get(metric + '_mean', 0.0) for the results
\* aggregate_runs built from the values l: no entry when there is no value
ResultMean(l) == IF l = <<>> THEN Frac(0, 1) ELSE MeanOf(l)

\* the same for '_std', default 1.0, as its square
ResultStd(l) == IF l = <<>> THEN Some(Frac(1, 1)) ELSE StdOf(l)

\* (std_c ** 2 + std_b ** 2) / 2, the square of pooled_std
PooledVariance(vc, vb) ==
    Frac(vc.num * vb.den + vb.num * vc.den, 2 * vc.den * vb.den)

\* the entry of effect_sizes for one metric, <<>> when none is written;
\* cohens_d is carried as its square
EffectSizeOf(canary, bluegreen) ==
    LET canary_mean == ResultMean(canary)
        bluegreen_mean == ResultMean(bluegreen)
        vc == ResultStd(canary)
        vb == ResultStd(bluegreen)
    IN  IF ~(canary_mean.num > 0 /\ bluegreen_mean.num > 0) THEN None
        ELSE IF vc = None \/ vb = None THEN None
        ELSE LET pooled == PooledVariance(vc[1], vb[1])
                 diff == Frac(bluegreen_mean.num * canary_mean.den
                                - canary_mean.num * bluegreen_mean.den,
                              bluegreen_mean.den * canary_mean.den)
                 cohens_d == Frac(diff.num * diff.num * pooled.den,
                                  diff.den * diff.den * pooled.num)
             IN  IF ~(pooled.num > 0) THEN None
                 ELSE Some([cohens_d       |-> cohens_d,
                            interpretation |-> InterpretEffectSize(cohens_d)])

CompareInit ==
    /\ group_a \in ValueLists /\ group_b \in ValueLists
    /\ data = <<>>
    /\ StatIdleLocals
    /\ called = "compare_scenarios"
    /\ spc = "start"

CompareScenarios ==
    /\ called = "compare_scenarios" /\ spc = "start"
    /\ stat_result' = Some(EffectSizeOf(group_a, group_b))
    /\ spc' = "done"
    /\ UNCHANGED <<data, group_a, group_b, n_bootstrap, bootstrap_samples, agg, called>>
    /\ UNCHANGED <<offVars, liveVars, parseVars, deriveVars>>

StatIdle ==
    /\ data = <<>> /\ group_a = <<>> /\ group_b = <<>>
    /\ StatIdleLocals
    /\ called = "none" /\ spc = "idle"

----------------------------------------------------------------------------
(* Specification: one of the programs runs, from its start to its return; *)
(* the variables of the others stay idle.                                  *)

OffIdle ==
    /\ rows = <<>> /\ idx = 1 /\ consecutive_bad = 0
    /\ events = InitialEvents /\ opc = "idle"

LiveIdle ==
    /\ baseline_p99 = None /\ baseline_error_rate = None
    /\ iteration = 0 /\ metrics = None /\ should_rollback = FALSE
    /\ reason = None /\ lpc = "idle" /\ duration_seconds = None
    /\ clock = 0 /\ observed = <<>> /\ log = <<>> /\ completed = 0

ParseIdle ==
    /\ window_sec = DefaultWindowSec /\ test_start_time = None
    /\ windows = NoWindows /\ results = <<>> /\ nrecords = 0
    /\ nskipped = 0 /\ fed = {} /\ ppc = "idle"

----------------------------------------------------------------------------
(* run_experiment_suite.py: run_experiment from the point where the run's  *)
(* script has succeeded and left the CSV of the run in run_dir.  It writes *)
(* events.json and runs derive_metrics.py on the CSV and that file.        *)

SuiteCanaryStart == 120
SuiteBlueGreenStart == 120

\* default_events
DefaultEvents(sc) ==
    [rollback_triggered |-> FALSE,
     rollback_time      |-> None,
     deployment_start   |-> Some(IF sc = "canary" THEN SuiteCanaryStart
                                 ELSE SuiteBlueGreenStart),
     rollout_stages     |-> <<>>]

SuiteInit ==
    /\ dmetrics \in DeriveSeries
    /\ scenario \in {"canary", "bluegreen"}
    /\ devents = MissingEvents
    /\ derived = None
    /\ dpc = "suite"

\* events.json is written with default_events, then derive_metrics.py runs
\* on the CSV and on that file and writes derived_metrics.json
RunExperiment ==
    /\ dpc = "suite"
    /\ devents' = DefaultEvents(scenario)
    /\ derived' = Some(
          [baseline              |-> CalculateBaseline(dmetrics),
           ttd_seconds           |-> CalculateTtd(dmetrics, devents', scenario),
           recovery_time_seconds |-> CalculateRecoveryTime(dmetrics, devents'),
           impact_scope          |-> CalculateImpactScope(dmetrics, devents', scenario),
           rollback_triggered    |-> devents'.rollback_triggered])
    /\ dpc' = "suite_done"
    /\ UNCHANGED <<dmetrics, scenario>>
    /\ UNCHANGED <<offVars, liveVars, parseVars, statVars>>

DeriveIdle ==
    /\ dmetrics = <<>> /\ devents = MissingEvents /\ scenario = "canary"
    /\ derived = None /\ dpc = "idle"

Init ==
    \/ OffInit /\ LiveIdle /\ ParseIdle /\ DeriveIdle /\ StatIdle
    \/ OffIdle /\ LiveInit /\ ParseIdle /\ DeriveIdle /\ StatIdle
    \/ OffIdle /\ LiveIdle /\ ParseInit /\ DeriveIdle /\ StatIdle
    \/ OffIdle /\ LiveIdle /\ ParseIdle /\ DeriveInit /\ StatIdle
    \/ OffIdle /\ LiveIdle /\ ParseIdle /\ SuiteInit /\ StatIdle
    \/ OffIdle /\ LiveIdle /\ ParseIdle /\ DeriveIdle /\ CliffsInit
    \/ OffIdle /\ LiveIdle /\ ParseIdle /\ DeriveIdle /\ BootstrapInit
    \/ OffIdle /\ LiveIdle /\ ParseIdle /\ DeriveIdle /\ AggregateInit
    \/ OffIdle /\ LiveIdle /\ ParseIdle /\ DeriveIdle /\ CompareInit

Next ==
    \/ SkipRow \/ BadRow \/ TriggerRow \/ GoodRow \/ ReturnEvents
    \/ Top \/ FetchOk \/ FetchFail \/ Check \/ RollbackOk \/ RollbackFail
    \/ DurationReached \/ DurationNotReached \/ Sleep \/ Interrupt \/ Finally
    \/ ProcessRecord \/ EmitResults
    \/ CalculateAllMetrics \/ RunExperiment
    \/ CliffsDelta
    \/ AggregateEmpty \/ AggregateStats
    \/ BootstrapEmpty \/ BootstrapOne \/ Resample \/ Percentiles
    \/ CompareScenarios

Spec == Init /\ [][Next]_vars

----------------------------------------------------------------------------
(* Properties *)

\* the classification and the deployment filter as the specification words them
BadWindow(row) == row.p99_ms > 500 \/ row.error_rate > 50
AfterDeployment(row) == row.window_start >= 120

\* the rows after the deployment among the first n rows, in series order
PostRows(n) == SelectSeq(SubSeq(rows, 1, n), AfterDeployment)

\* two bad windows in a row at positions j, j + 1 of p
BadPairAt(p, j) == j + 1 <= Len(p) /\ BadWindow(p[j]) /\ BadWindow(p[j + 1])

HasBadPair(p) == \E j \in 1 .. Len(p) : BadPairAt(p, j)

FirstBadPair(p) ==
    CHOOSE j \in 1 .. Len(p) : BadPairAt(p, j) /\ \A i \in 1 .. (j - 1) : ~BadPairAt(p, i)

RECURSIVE TrailingBad(_)
\* the number of bad windows at the end of p
TrailingBad(p) ==
    IF p = <<>> \/ ~BadWindow(p[Len(p)]) THEN 0
    ELSE 1 + TrailingBad(SubSeq(p, 1, Len(p) - 1))

InLog(tag) == \E i \in 1 .. Len(log) : log[i] = tag

\* C1: the offline detector returns triggered exactly when the windows after
\* the deployment contain two bad windows in a row, it stops on the second
\* window of the earliest such pair, and while it runs its counter is the
\* number of bad windows that end the post-deployment windows seen so far
\* (a good window resets it, a pre-deployment window leaves it alone); fewer
\* than two post-deployment windows never trigger.
C1_TriggersOnFirstBadPair ==
    /\ opc = "loop" => consecutive_bad = TrailingBad(PostRows(idx - 1))
    /\ opc = "done" =>
         LET p == PostRows(Len(rows))
         IN  /\ events.rollback_triggered <=> HasBadPair(p)
             /\ events.rollback_triggered =>
                  rows[idx] = p[FirstBadPair(p) + 1]
             /\ Len(p) < 2 => ~events.rollback_triggered

\* a bad pre-deployment window, then good, bad, bad after the deployment
C1_Witness ==
    /\ opc = "done" /\ events.rollback_triggered /\ idx = 4
    /\ ~AfterDeployment(rows[1]) /\ BadWindow(rows[1])
    /\ ~BadWindow(rows[2])

\* C2: when the offline detector triggers, rollback_time is the window_end
\* of the window on which the counter reached 2.
C2_TriggerTimeIsWindowEnd ==
    (opc = "done" /\ events.rollback_triggered) =>
        events.rollback_time = Some(rows[idx].window_end)

\* the windows the live loop evaluated, as the rows of a series that starts
\* at the deployment
ObservedRows ==
    [i \in 1 .. Len(observed) |->
        [window_start |-> 120 + (i - 1) * 10,
         window_end   |-> 120 + i * 10,
         p99_ms       |-> observed[i].p99_latency_ms,
         error_rate   |-> observed[i].error_rate]]

\* C3: when the live loop asks for a rollback, the offline replay of the
\* windows it has evaluated triggers on that same window with the same
\* reason, and when the replay triggers the live loop has asked for one.
C3_LiveMatchesOffline ==
    LET off == Replay(ObservedRows)
    IN  /\ lpc = "rollback" =>
              /\ off.events.rollback_triggered
              /\ off.index = Len(observed)
              /\ off.events.trigger_reason = reason
        /\ off.events.rollback_triggered => InLog("detected")

\* C4: the trigger reason is p99_threshold when the p99 condition holds on
\* the triggering window and error_rate_threshold otherwise, offline and live.
C4_ReasonPrefersP99 ==
    /\ events.rollback_triggered =>
         events.trigger_reason =
            Some(IF rows[idx].p99_ms > 500
                 THEN "p99_threshold" ELSE "error_rate_threshold")
    /\ lpc = "rollback" =>
         reason =
            Some(IF 2 * metrics[1].p99_latency_ms > 3 * baseline_p99[1]
                 THEN "p99_threshold" ELSE "error_rate_threshold")

\* both conditions hold on the triggering window, the window before it was
\* bad by its error rate alone
C4_Witness ==
    /\ events.rollback_triggered
    /\ rows[idx].p99_ms > 500 /\ rows[idx].error_rate > 50
    /\ rows[idx - 1].p99_ms <= 500 /\ rows[idx - 1].error_rate > 50

\* C5: once triggered, the decision stays: the offline events no longer
\* change, and in the live loop the decision and its reason no longer change
\* and no later poll is taken as a new trigger.
C5_TriggeredIsTerminal ==
    [][ /\ events.rollback_triggered => events' = events
        /\ InLog("detected") =>
             /\ should_rollback' = should_rollback
             /\ reason' = reason
             /\ log' # Append(log, "detected") ]_vars

\* C6: a returned event's rollback_time, if present, is >= deployment_start
\* and the window_end of some row; without a trigger, time and reason are
\* None and consecutive_bad_windows is 0.
C6_EventWellFormed ==
    opc = "done" =>
        /\ events.rollback_time # None =>
             /\ events.rollback_time[1] >= events.deployment_start
             /\ \E i \in 1 .. Len(rows) :
                    rows[i].window_end = events.rollback_time[1]
        /\ ~events.rollback_triggered =>
             /\ events.rollback_time = None
             /\ events.trigger_reason = None
             /\ events.consecutive_bad_windows = 0

\* C7: a step out of the rollback action that is neither its success nor an
\* interrupt reports the failure, leaves the decision, its reason and the
\* baseline as they were, and goes on to the end of the loop body, from
\* where the loop polls again.
C7_FailedRollbackKeepsPolling ==
    [][ ( /\ lpc = "rollback" /\ lpc' # "rollback"
          /\ log' # Append(log, "rollback_ok")
          /\ log' # Append(log, "interrupted") )
        => /\ log' = Append(log, "rollback_failed")
           /\ lpc' = "duration"
           /\ should_rollback /\ should_rollback'
           /\ reason' = reason
           /\ baseline_p99' = baseline_p99
           /\ baseline_error_rate' = baseline_error_rate ]_vars

\* the rollback action runs again after it failed on an earlier pass
C7_Witness == lpc = "rollback" /\ InLog("rollback_failed") /\ iteration >= 2

\* C8: a poll whose fetch failed is skipped: it goes straight to the end of
\* the loop body with the baseline, the decision, its reason and the
\* evaluated windows unchanged, and the rollback action never runs on a
\* pass without metrics.
C8_MissingPollIsSkipped ==
    /\ [](lpc = "rollback" => metrics # None)
    /\ [][ (lpc = "fetch" /\ lpc' \notin {"fetch", "check", "finally"})
           => /\ lpc' = "duration"
              /\ log' = Append(log, "unable")
              /\ baseline_p99' = baseline_p99
              /\ baseline_error_rate' = baseline_error_rate
              /\ should_rollback' = should_rollback
              /\ reason' = reason
              /\ observed' = observed ]_vars

\* a fetch failed on the pass after a rollback was asked for and failed
C8_Witness ==
    /\ lpc = "duration" /\ metrics = None /\ should_rollback
    /\ Len(log) >= 1 /\ log[Len(log)] = "unable"

\* C9: when the loop has ended, every pass it began ran to the end of the
\* loop body, and the summary was printed exactly once, as the last line.
C9_CancelCompletesCycle ==
    lpc = "done" =>
        /\ completed = iteration
        /\ Cardinality({ i \in 1 .. Len(log) : log[i] = "summary" }) = 1
        /\ log[Len(log)] = "summary"

\* C10: every emitted window is window_sec wide, and each window ends no
\* later than the next one starts, with strictly increasing starts.
C10_WindowsTileTime ==
    ppc = "done" =>
        /\ \A i \in 1 .. Len(results) :
              results[i].window_end - results[i].window_start = window_sec
        /\ \A i \in 1 .. (Len(results) - 1) :
              /\ results[i].window_end <= results[i + 1].window_start
              /\ results[i].window_start < results[i + 1].window_start

\* C11: the emitted windows are exactly the buckets floor(elapsed / w) that
\* were given a latency sample, one window per bucket, whatever the elapsed
\* time of the sample, the first 60 seconds included.
C11_EveryFedBucketEmitted ==
    ppc = "done" =>
        /\ { results[i].window_key : i \in 1 .. Len(results) } = fed
        /\ Len(results) = Cardinality(fed)

\* the number of samples of a window below v, and at or below v
CountBelow(lat, v) == Cardinality({ j \in 1 .. Len(lat) : lat[j] < v })
CountUpTo(lat, v) == Cardinality({ j \in 1 .. Len(lat) : lat[j] <= v })

\* clamp(floor(n * pct / 100), 0, n - 1)
ClampedRank(n, pct) ==
    LET f == (n * pct) \div 100
    IN  IF f < 0 THEN 0 ELSE IF f > n - 1 THEN n - 1 ELSE f

\* v is the sample of rank k (counted from 0) of lat in ascending order
IsRank(lat, v, k) ==
    /\ \E j \in 1 .. Len(lat) : lat[j] = v
    /\ CountBelow(lat, v) <= k
    /\ k < CountUpTo(lat, v)

\* C12: in every emitted window p50 <= p95 <= p99, and each percentile is
\* the window's own sample of rank clamp(floor(n * p), 0, n - 1) in
\* ascending order.
C12_PercentilesOrdered ==
    ppc = "done" =>
        \A i \in 1 .. Len(results) :
            LET r == results[i]
                lat == windows[r.window_key].latencies
                n == Len(lat)
            IN  /\ r.p50_ms <= r.p95_ms /\ r.p95_ms <= r.p99_ms
                /\ IsRank(lat, r.p50_ms, ClampedRank(n, 50))
                /\ IsRank(lat, r.p95_ms, ClampedRank(n, 95))
                /\ IsRank(lat, r.p99_ms, ClampedRank(n, 99))

\* a window of three samples that arrived out of order, with p50 < p95
C12_Witness ==
    /\ ppc = "done"
    /\ \E i \in 1 .. Len(results) :
          /\ results[i].total_requests >= 3
          /\ results[i].p50_ms < results[i].p95_ms
          /\ windows[results[i].window_key].latencies[1] = 700

\* C13: when records were skipped for their timestamp, the aggregator hands
\* back, beside the windows, a count equal to the number of records skipped.
C13_SkippedAreCounted ==
    (ppc = "done" /\ nskipped > 0) =>
        /\ "skipped" \in DOMAIN Returned
        /\ Returned.skipped = nskipped

\* C14: the TTD is None exactly when no rollback was triggered, and for a
\* triggered event that carries its trigger time it is
\* max(0, trigger_time - deployment_start) with the event's own
\* deployment_start.
C14_TtdFromEvent ==
    dpc = "done" =>
        LET ttd == derived[1].ttd_seconds
        IN  /\ (ttd = None) <=> ~devents.rollback_triggered
            /\ ( /\ devents.rollback_triggered
                 /\ devents.rollback_time # None
                 /\ devents.deployment_start # None )
               => LET t == devents.rollback_time[1] - devents.deployment_start[1]
                  IN  ttd = Some(IF t > 0 THEN t ELSE 0)

\* C15: for a triggered event without a trigger time, the trigger time
\* calculate_ttd infers is the one extract_rollback_events records on the
\* same series with the same deployment_start, so the TTD is that time
\* less the deployment_start, and None when the detector records none.
C15_InferredIsDetectorTime ==
    ( /\ dpc = "done"
      /\ devents.rollback_triggered
      /\ devents.rollback_time = None
      /\ devents.deployment_start = Some(DeploymentStart) ) =>
        LET detected == Replay(dmetrics).events.rollback_time
        IN  derived[1].ttd_seconds =
                IF detected = None THEN None
                ELSE Some(detected[1] - DeploymentStart)

RECURSIVE SumAt(_, _, _)
\* the sum of field f over the rows of ms at the positions in I
SumAt(ms, I, f) ==
    IF I = {} THEN 0
    ELSE LET i == CHOOSE j \in I : TRUE
         IN  ms[i][f] + SumAt(ms, I \ {i}, f)

\* the fraction q is the mean of field f over the rows of ms at positions I
IsMeanAt(q, ms, I, f) == q.den > 0 /\ q.num * Cardinality(I) = SumAt(ms, I, f) * q.den

\* C16: the baseline is the mean of p99 and of error_rate over the windows
\* that start before 60 s; without such a window, over the first 6 windows
\* of the series (all of them if fewer); for an empty series it is p99 = 100
\* and error_rate = 0.01.
C16_BaselineIsMean ==
    dpc = "done" =>
        LET early == { i \in 1 .. Len(dmetrics) : dmetrics[i].window_start < 60 }
            first == { i \in 1 .. Len(dmetrics) : i <= 6 }
            used == IF early # {} THEN early ELSE first
            b == derived[1].baseline
        IN  IF used = {}
            THEN /\ b.p99_ms.num = 100 * b.p99_ms.den
                 /\ b.error_rate.num = 10 * b.error_rate.den
            ELSE /\ IsMeanAt(b.p99_ms, dmetrics, used, "p99_ms")
                 /\ IsMeanAt(b.error_rate, dmetrics, used, "error_rate")

\* a series of more than 6 windows, none before 60 s, whose seventh window
\* would move the mean
C16_Witness ==
    /\ dpc = "done"
    /\ Len(dmetrics) > 6
    /\ \A i \in 1 .. Len(dmetrics) : dmetrics[i].window_start >= 60
    /\ dmetrics[7].p99_ms = 700
    /\ derived[1].baseline.p99_ms = [num |-> 480, den |-> 6]

\* C17: the baseline is the mean over the windows that start before the
\* deployment at 120 s and over no window of the rollout; without a window
\* before the deployment it is p99 = 100 and error_rate = 0.01.
C17_BaselineIsPreDeployment ==
    dpc = "done" =>
        LET pre == { i \in 1 .. Len(dmetrics) : dmetrics[i].window_start < 120 }
            b == derived[1].baseline
        IN  IF pre = {}
            THEN /\ b.p99_ms.num = 100 * b.p99_ms.den
                 /\ b.error_rate.num = 10 * b.error_rate.den
            ELSE /\ IsMeanAt(b.p99_ms, dmetrics, pre, "p99_ms")
                 /\ IsMeanAt(b.error_rate, dmetrics, pre, "error_rate")

\* the least position in the non-empty set I
MinOf(I) == CHOOSE i \in I : \A j \in I : i <= j

\* C18: with a rollback triggered at trigger_time on a non-empty series the
\* recovery time is not None: it is window_end - trigger_time of the first
\* window in series order with window_start >= trigger_time,
\* p99 < 1.1 * baseline p99 and error_rate < baseline error_rate + 0.01,
\* and without such a window it is the last window_end - trigger_time;
\* with no rollback triggered it is None.
C18_RecoveryTime ==
    dpc = "done" =>
        LET rec == derived[1].recovery_time_seconds
            b == derived[1].baseline
        IN  /\ ~devents.rollback_triggered => rec = None
            /\ ( /\ devents.rollback_triggered
                 /\ devents.rollback_time # None
                 /\ dmetrics # <<>> ) =>
                  LET t == devents.rollback_time[1]
                      ok == { i \in 1 .. Len(dmetrics) :
                                /\ dmetrics[i].window_start >= t
                                /\ 10 * dmetrics[i].p99_ms * b.p99_ms.den
                                     < 11 * b.p99_ms.num
                                /\ dmetrics[i].error_rate * b.error_rate.den
                                     < b.error_rate.num + 10 * b.error_rate.den }
                  IN  IF ok # {}
                      THEN rec = Some(dmetrics[MinOf(ok)].window_end - t)
                      ELSE rec = Some(dmetrics[Len(dmetrics)].window_end - t)

\* a rollback followed by a window that is still bad and then by one that
\* has recovered
C18_Witness ==
    /\ dpc = "done"
    /\ devents.rollback_triggered
    /\ devents.rollback_time = Some(130)
    /\ Len(dmetrics) >= 3
    /\ dmetrics[Len(dmetrics) - 1].window_start = 130
    /\ dmetrics[Len(dmetrics) - 1].p99_ms = 700
    /\ dmetrics[Len(dmetrics)].p99_ms = 80
    /\ derived[1].recovery_time_seconds = Some(dmetrics[Len(dmetrics)].window_end - 130)

\* a rollback after which no window recovers: the lower bound is returned
C18_WitnessLowerBound ==
    /\ dpc = "done"
    /\ devents.rollback_triggered
    /\ devents.rollback_time = Some(130)
    /\ dmetrics[Len(dmetrics)].window_end = 190
    /\ \A i \in 1 .. Len(dmetrics) : dmetrics[i].p99_ms = 700
    /\ derived[1].recovery_time_seconds = Some(60)

\* the positions of the windows of the exposure interval: from the
\* deployment at 120 s to the trigger time, or to the end of the series
\* when no rollback was triggered
Exposure ==
    { i \in 1 .. Len(dmetrics) :
        /\ dmetrics[i].window_start >= 120
        /\ devents.rollback_triggered =>
              dmetrics[i].window_start < devents.rollback_time[1] }

\* C19: the impact scope counts the requests and errors of the exposure
\* interval, [deployment_start, trigger_time) after a rollback and
\* [deployment_start, series_end) without one, and a run that never rolled
\* back but has windows after the deployment reports a traffic share above
\* zero.
C19_ImpactOverExposure ==
    ( /\ dpc = "done"
      /\ devents.rollback_triggered => devents.rollback_time # None ) =>
        LET imp == derived[1].impact_scope
            requests == SumAt(dmetrics, Exposure, "total_requests")
            errors == SumAt(dmetrics, Exposure, "error_count")
        IN  /\ imp.total_requests_before_rollback = requests
            /\ imp.error_rate_during_regression.num * requests
                 = errors * imp.error_rate_during_regression.den
            /\ (~devents.rollback_triggered /\ Exposure # {})
                 => imp.traffic_to_v2_pct.num > 0

\* the length of the part of [a, b) that lies in [lo, hi)
Overlap(a, b, lo, hi) ==
    LET from == IF a > lo THEN a ELSE lo
        to == IF b < hi THEN b ELSE hi
    IN  IF to > from THEN to - from ELSE 0

RECURSIVE StepIntegral(_, _, _, _)
\* the integral over [lo, hi) of the step function of the stages st from
\* stage k on: stage k holds from its time to the time of the next stage
StepIntegral(st, k, lo, hi) ==
    IF k > Len(st) THEN 0
    ELSE st[k].traffic_pct
           * Overlap(st[k].time, IF k < Len(st) THEN st[k + 1].time ELSE hi, lo, hi)
         + StepIntegral(st, k + 1, lo, hi)

\* C20: after a rollback at trigger_time the traffic share is the
\* time-weighted average of the step function of the event's rollout_stages
\* over [deployment_start, trigger_time): its integral divided by the
\* length of the interval; for a single stage of 100% it is full traffic.
C20_TrafficIsStageAverage ==
    ( /\ dpc = "done"
      /\ devents.rollback_triggered
      /\ devents.rollback_time # None
      /\ devents.rollback_time[1] > devents.deployment_start[1] ) =>
        LET lo == devents.deployment_start[1]
            hi == devents.rollback_time[1]
            share == derived[1].impact_scope.traffic_to_v2_pct
        IN  share.num * (hi - lo)
              = StepIntegral(devents.rollout_stages, 1, lo, hi) * share.den

\* the positions of the windows with deployment_start <= window_start <
\* trigger_time, for an event that carries both times
ExposureWindows ==
    { i \in 1 .. Len(dmetrics) :
        /\ devents.deployment_start[1] <= dmetrics[i].window_start
        /\ dmetrics[i].window_start < devents.rollback_time[1] }

\* C21: after a rollback at trigger_time the error rate of the exposure is
\* sum(error_count) / sum(total_requests) over exactly the windows with
\* deployment_start <= window_start < trigger_time, 0 when they hold no
\* request, and affected_users_pct is traffic_to_v2_pct times that rate.
C21_ErrorRateOverExposure ==
    ( /\ dpc = "done"
      /\ devents.rollback_triggered
      /\ devents.rollback_time # None ) =>
        LET imp == derived[1].impact_scope
            rate == imp.error_rate_during_regression
            requests == SumAt(dmetrics, ExposureWindows, "total_requests")
            errors == SumAt(dmetrics, ExposureWindows, "error_count")
        IN  /\ rate.den > 0
            /\ IF requests = 0 THEN rate.num = 0
               ELSE rate.num * requests = errors * rate.den
            /\ imp.affected_users_pct.num * imp.traffic_to_v2_pct.den * rate.den
                 = imp.traffic_to_v2_pct.num * rate.num * imp.affected_users_pct.den

\* the series cut immediately after the window the detector stopped on
TruncatedRows == SubSeq(rows, 1, IF idx <= Len(rows) THEN idx ELSE Len(rows))

\* C26: when the offline detector triggers on a series, the detector run on
\* the series cut immediately after the trigger window triggers as well,
\* with the same trigger time, trigger reason and consecutive_bad_windows.
C26_TruncationKeepsTrigger ==
    (opc = "done" /\ events.rollback_triggered) =>
        LET cut == Replay(TruncatedRows).events
        IN  /\ cut.rollback_triggered
            /\ cut.rollback_time = events.rollback_time
            /\ cut.trigger_reason = events.trigger_reason
            /\ cut.consecutive_bad_windows = events.consecutive_bad_windows

\* a trigger on the second of three bad windows: the cut drops a bad window
C26_Witness ==
    /\ opc = "done" /\ events.rollback_triggered
    /\ idx = 2 /\ Len(rows) = 3
    /\ BadWindow(rows[3])
    /\ Len(TruncatedRows) = 2

\* a series with the bad/good sequence of p and nothing else of it: other
\* timestamps, one p99 and one error rate for every bad window, one for
\* every good one
SameClasses(p) ==
    [i \in 1 .. Len(p) |->
        [window_start |-> 1000 + 7 * i,
         window_end   |-> 1007 + 7 * i,
         p99_ms       |-> IF BadWindow(p[i]) THEN 900 ELSE 10,
         error_rate   |-> IF BadWindow(p[i]) THEN 500 ELSE 10]]

\* C27: the decision of the offline detector depends only on the ordered
\* bad/good classification of the windows after the deployment: a series
\* with the same classification sequence and other timestamps, p99 values
\* and error rates gives the same triggered flag and triggers at the same
\* position among those windows.
C27_DecisionFromClassification ==
    opc = "done" =>
        LET other == Replay(SameClasses(PostRows(Len(rows))))
        IN  /\ other.events.rollback_triggered = events.rollback_triggered
            /\ events.rollback_triggered => other.index = Len(PostRows(idx))

\* a trigger on windows that are bad by their error rate alone, after a
\* window before the deployment
C27_Witness ==
    /\ opc = "done" /\ events.rollback_triggered
    /\ idx = 3
    /\ ~AfterDeployment(rows[1])
    /\ rows[2].p99_ms < 500 /\ rows[3].p99_ms < 500
    /\ Replay(SameClasses(PostRows(Len(rows)))).index = 2

\* C29: every emitted window has error_count <= total_requests and an
\* error rate between 0 and 1, whatever the order of the latency and the
\* request-status records, and every window that counted an error is
\* emitted.
C29_ErrorsWithinRequests ==
    ppc = "done" =>
        /\ \A i \in 1 .. Len(results) :
              /\ results[i].error_count <= results[i].total_requests
              /\ results[i].error_rate >= 0
              /\ results[i].error_rate <= 1000
        /\ \A k \in DOMAIN windows :
              windows[k].errors > 0 =>
                 \E i \in 1 .. Len(results) : results[i].window_key = k

\* C30: for a triggered event without a trigger time, the TTD is counted
\* to the trigger time that calculate_impact_scope infers from the series,
\* and when a time is inferred the recovery time is counted from it
\* instead of being None.
C30_OneInferredTriggerTime ==
    ( /\ dpc = "done"
      /\ devents.rollback_triggered
      /\ devents.rollback_time = None ) =>
        LET ds == devents.deployment_start[1]
            t == EstimateFrom(dmetrics, 1, ds)
        IN  /\ derived[1].ttd_seconds =
                  IF t = None THEN None ELSE Some(t[1] - ds)
            /\ t # None => derived[1].recovery_time_seconds # None

\* the windows of the run's series after the deployment, in series order
PostMetrics == SelectSeq(dmetrics, AfterDeployment)

\* C28: for a run processed by the experiment-suite runner whose series
\* holds two bad windows in a row after the deployment, the derived metrics
\* report rollback_triggered with a TTD and a recovery time that are not
\* None.
C28_SuiteUsesOwnDecision ==
    (dpc = "suite_done" /\ HasBadPair(PostMetrics)) =>
        /\ derived[1].rollback_triggered
        /\ derived[1].ttd_seconds # None
        /\ derived[1].recovery_time_seconds # None

\* the pairs (i, j) of positions of two value lists
PairsOf(ga, gb) == (1 .. Len(ga)) \X (1 .. Len(gb))

\* the multiset of the values of a list, as the count of each value
CountsOf(l) == [v \in { l[i] : i \in 1 .. Len(l) } |->
                   Cardinality({ i \in 1 .. Len(l) : l[i] = v })]

\* C22: for two non-empty collections, cliffs_delta is the number of pairs
\* with a > b less the number of pairs with a < b, over |A| * |B|; it lies
\* in [-1, 1], is -1 when every element of A is below every element of B
\* and 0 when A and B are the same multiset.
C22_CliffsDelta ==
    ( /\ called = "cliffs_delta" /\ spc = "done"
      /\ group_a # <<>> /\ group_b # <<>> ) =>
        LET delta == stat_result[1]
            more == Cardinality({ q \in PairsOf(group_a, group_b) :
                                    group_a[q[1]] > group_b[q[2]] })
            less == Cardinality({ q \in PairsOf(group_a, group_b) :
                                    group_a[q[1]] < group_b[q[2]] })
        IN  /\ delta.den = Len(group_a) * Len(group_b)
            /\ delta.num = more - less
            /\ 0 - delta.den <= delta.num /\ delta.num <= delta.den
            /\ (\A q \in PairsOf(group_a, group_b) : group_a[q[1]] < group_b[q[2]])
                  => delta.num = 0 - delta.den
            /\ CountsOf(group_a) = CountsOf(group_b) => delta.num = 0

\* A = [1, 2, 3] against B = [4, 5, 6]: delta is -1
C22_Witness ==
    /\ called = "cliffs_delta" /\ spc = "done"
    /\ group_a = <<1, 2, 3>> /\ group_b = <<4, 5, 6>>
    /\ stat_result = Some([num |-> 0 - 9, den |-> 9])

\* every value of the list l is c
AllEqual(l, c) == \A i \in 1 .. Len(l) : l[i] = c

\* the fraction q is the whole number c
IsWhole(q, c) == q.den > 0 /\ q.num = c * q.den

\* C24: for a sample whose values all equal c, the aggregate reports
\* mean = c and ci_lower = ci_upper = c, whatever the resamples drawn and
\* the number of resamples.
C24_ConstantSample ==
    ( /\ called = "aggregate_metric" /\ spc = "done"
      /\ data # <<>> /\ AllEqual(data, data[1]) ) =>
        /\ IsWhole(stat_result[1].mean, data[1])
        /\ IsWhole(stat_result[1].ci_lower, data[1])
        /\ IsWhole(stat_result[1].ci_upper, data[1])

\* three runs of value 10 and two resamples
C24_Witness ==
    /\ called = "aggregate_metric" /\ spc = "done"
    /\ data = <<10, 10, 10>>
    /\ Len(bootstrap_samples) = 2
    /\ stat_result[1].ci_upper = [num |-> 1200, den |-> 120]

\* C25: on empty input nothing is raised: bootstrap_ci returns (0, 0),
\* cliffs_delta returns 0 when either collection is empty, and
\* aggregate_metric reports 0 for mean, std, median, ci_lower, ci_upper
\* and n.
C25_EmptyInputDefaults ==
    spc = "done" =>
        /\ (called = "bootstrap_ci" /\ data = <<>>) =>
              stat_result = Some([ci_lower |-> [num |-> 0, den |-> 1],
                                  ci_upper |-> [num |-> 0, den |-> 1]])
        /\ (called = "cliffs_delta" /\ (group_a = <<>> \/ group_b = <<>>)) =>
              stat_result = Some([num |-> 0, den |-> 1])
        /\ (called = "aggregate_metric" /\ data = <<>>) =>
              /\ DOMAIN stat_result[1] =
                    {"mean", "std", "median", "ci_lower", "ci_upper", "n"}
              /\ stat_result[1].mean.num = 0
              /\ stat_result[1].std = Some([num |-> 0, den |-> 1])
              /\ stat_result[1].median.num = 0
              /\ stat_result[1].ci_lower.num = 0
              /\ stat_result[1].ci_upper.num = 0
              /\ stat_result[1].n = 0

\* aggregate_metric has returned for no value
C25_Witness ==
    /\ called = "aggregate_metric" /\ spc = "done"
    /\ data = <<>>
    /\ stat_result # None

\* the size of Cliff's Delta over the per-run values of the two scenarios,
\* counted over the pairs
AbsDelta ==
    LET more == Cardinality({ q \in PairsOf(group_a, group_b) :
                                group_a[q[1]] > group_b[q[2]] })
        less == Cardinality({ q \in PairsOf(group_a, group_b) :
                                group_a[q[1]] < group_b[q[2]] })
    IN  [num |-> IF more >= less THEN more - less ELSE less - more,
         den |-> Len(group_a) * Len(group_b)]

\* the band of |delta|: below 0.147 negligible, below 0.33 small, below
\* 0.474 medium, else large
DeltaBand(q) ==
    IF q.num * 1000 < 147 * q.den THEN "negligible"
    ELSE IF q.num * 100 < 33 * q.den THEN "small"
    ELSE IF q.num * 1000 < 474 * q.den THEN "medium"
    ELSE "large"

\* C23: the effect size reported for the two scenarios is Cliff's Delta
\* over the per-run values, and its interpretation is the band of |delta|.
C23_EffectIsCliffsDelta ==
    ( /\ called = "compare_scenarios" /\ spc = "done"
      /\ stat_result[1] # None ) =>
        LET entry == stat_result[1][1]
        IN  /\ "cliffs_delta" \in DOMAIN entry
            /\ entry.interpretation = DeltaBand(AbsDelta)

====
